---- MODULE Spec2Model ----
(***************************************************************************)
(* A model of the bucket sync job of sthree/syncFromJob.go: one job, its   *)
(* bucket's dry-run flag, the file at the job's local path and the remote  *)
(* object at the job's key.  Run is followed call by call: every call that *)
(* blocks (Exists, RemoveAll, Stat, ReadFile, Get) is one step, and the    *)
(* deferred markComplete is the last step of every Run.                    *)
(* A second specification follows the rebuild of repobuilder/rpm.go: the   *)
(* rebuildRepo of every working directory of one build job, all running    *)
(* concurrently, and the coordinator that waits for them.                  *)
(***************************************************************************)
EXTENDS Integers, Sequences, FiniteSets, TLC

VARIABLES
    isComplete,  \* syncFromJob.isComplete
    withDelete,  \* syncFromJob.withDelete
    remoteFile,  \* syncFromJob.remoteFile: [Key, ETag]
    dryRun,      \* syncFromJob.b.dryRun
    errors,      \* syncFromJob.errors
    disk,        \* the file system at syncFromJob.localPath
    remote,      \* the bucket's object at remoteFile.Key
    pc,          \* the position of Run
    data,        \* Run's local variable data
    runs,        \* the number of Run invocations so far
    marks,       \* the number of markComplete executions so far
    calls,       \* the calls the current (or last) Run has made
    pre,         \* disk and errors as the current (or last) Run found them
    xhist,       \* the existence-check result of every Run so far
    diskInit,    \* disk at construction
    log,         \* the log lines of the current (or last) Run
    lastError,   \* the last call of Error(): its result, and len(j.errors) then
    DryRun,      \* BuildRPMRepoJob.DryRun
    mutex,       \* BuildRPMRepoJob.mutex: the pipelines that hold it
    Output,      \* BuildRPMRepoJob.Output
    Errors,      \* BuildRPMRepoJob.Errors
    wg,          \* the wait-group's counter
    coord,       \* the position of the coordinator
    rpc,         \* the position of every rebuildRepo
    out,         \* rebuildRepo's local variable output
    pending,     \* rebuildRepo's error on its way to addError
    trace,       \* the stages every rebuildRepo has passed, with their results
    cmdRuns,     \* how often every rebuildRepo has run createrepo
    dones        \* how often every rebuildRepo has called wg.Done

syncVars == <<isComplete, withDelete, remoteFile, dryRun, errors, disk, remote,
              pc, data, runs, marks, calls, pre, xhist, diskInit, log,
              lastError>>
rpmVars == <<DryRun, mutex, Output, Errors, wg, coord, rpc, out, pending,
             trace, cmdRuns, dones>>
vars == <<syncVars, rpmVars>>

(***************************************************************************)
(* Bounds of the model.                                                    *)
(***************************************************************************)
\* How many times Run is invoked on the one job.
MaxRuns == 2
\* How many quote or space characters surround a stored checksum.
MaxPad == 1
\* How many working directories one build rebuilds concurrently.
NumDirs == 3

(***************************************************************************)
(* Values.                                                                 *)
(***************************************************************************)
Contents == {"hello", "world"}
NoObject == "<none>"
NoData == ""

Absent == [present |-> FALSE, content |-> NoData, readable |-> FALSE]
File(c, r) == [present |-> TRUE, content |-> c, readable |-> r]
DiskStates == {Absent} \cup {File(c, r) : c \in Contents, r \in BOOLEAN}

Quote == "\""
Space == " "
Cutset == {Quote, Space}

\* crypto/md5: the digests of the contents of the model, as 16 bytes.
md5Sum(d) ==
    CASE d = "hello" -> <<93, 65, 64, 42, 188, 75, 42, 118,
                          185, 113, 157, 145, 16, 23, 197, 146>>
      [] d = "world" -> <<125, 121, 48, 55, 160, 118, 1, 134,
                          87, 75, 2, 130, 242, 244, 53, 231>>
      [] OTHER       -> <<212, 29, 140, 217, 143, 0, 178, 4,
                          233, 128, 9, 152, 236, 248, 66, 126>>

LowerDigits == <<"0", "1", "2", "3", "4", "5", "6", "7",
                 "8", "9", "a", "b", "c", "d", "e", "f">>
UpperDigits == <<"0", "1", "2", "3", "4", "5", "6", "7",
                 "8", "9", "A", "B", "C", "D", "E", "F">>

RECURSIVE HexWith(_, _)
HexWith(digits, bytes) ==
    IF bytes = <<>> THEN <<>>
    ELSE <<digits[(Head(bytes) \div 16) + 1], digits[(Head(bytes) % 16) + 1]>>
         \o HexWith(digits, Tail(bytes))

HexUpper(bytes) == HexWith(UpperDigits, bytes)
\* fmt.Sprintf("%x", ...): two lower-case hexadecimal digits per byte.
HexLower(bytes) == HexWith(LowerDigits, bytes)

RECURSIVE TrimLeft(_, _)
TrimLeft(s, cutset) ==
    IF s # <<>> /\ Head(s) \in cutset THEN TrimLeft(Tail(s), cutset) ELSE s

RECURSIVE TrimRight(_, _)
TrimRight(s, cutset) ==
    IF s # <<>> /\ s[Len(s)] \in cutset
    THEN TrimRight(SubSeq(s, 1, Len(s) - 1), cutset) ELSE s

TrimLeftOnly(s, cutset) == TrimLeft(s, cutset)
\* strings.Trim: all leading and trailing characters of the cutset removed.
Trim(s, cutset) == TrimRight(TrimLeft(s, cutset), cutset)

RECURSIVE SeqsUpTo(_, _)
SeqsUpTo(S, n) ==
    IF n = 0 THEN {<<>>}
    ELSE LET shorter == SeqsUpTo(S, n - 1)
         IN shorter \cup {<<c>> \o s : c \in S, s \in shorter}

\* The checksum strings a listing may give: a digest in either letter case,
\* bare or between quote and space characters.
Pads == SeqsUpTo(Cutset, MaxPad)
Digests == {HexWith(LowerDigits, md5Sum("hello")),
            HexWith(UpperDigits, md5Sum("hello")),
            HexWith(LowerDigits, md5Sum("world")),
            HexWith(LowerDigits, md5Sum(NoData))}
ETags == {p \o d \o q : p \in Pads, q \in {<<>>, <<Quote>>}, d \in Digests}
Key == "pkg.rpm"
\* The zero s3.Key marks "no remote file"; any other key comes from a listing.
RemoteFiles == {[Key |-> "", ETag |-> <<>>]}
               \cup {[Key |-> Key, ETag |-> e] : e \in ETags}

(***************************************************************************)
(* Errors.  An error is the chain of its messages, outermost first; nil is *)
(* the empty chain.                                                        *)
(***************************************************************************)
Nil == <<>>
\* errors.Wrap: nil stays nil, any other error gets the message in front.
Wrap(err, msg) == IF err = Nil THEN Nil ELSE <<msg>> \o err

addErrorAlways(errs, err) == Append(errs, err)
\* syncFromJob.addError
addError(errs, err) == IF err # Nil THEN Append(errs, err) ELSE errs

RECURSIVE Join(_, _)
Join(outputs, sep) ==
    IF outputs = <<>> THEN <<>>
    ELSE IF Len(outputs) = 1 THEN Head(outputs)
    ELSE Head(outputs) \o <<sep>> \o Join(Tail(outputs), sep)

\* syncFromJob.Error
Error == IF Len(errors) = 0 THEN Nil ELSE Join(errors, "\n")

\* Error() has not been called yet.
NotCalled == [called |-> FALSE, n |-> 0, value |-> Nil]

(***************************************************************************)
(* The collaborators of the job: the bucket and the file system.  Each     *)
(* gives the set of outcomes one call can have.                            *)
(***************************************************************************)
\* Bucket.Exists: the check fails, or reports whether the object is there.
BucketExists(rem) ==
    {[err |-> <<"s3 exists failed">>, exists |-> FALSE],
     [err |-> Nil, exists |-> rem # NoObject]}

\* Bucket.Get: in dry-run the transfer is logged and not performed; otherwise
\* it fails, or writes the object's content to the local path.
BucketGet(dry, rem, d) ==
    IF dry
    THEN {[err |-> Nil, disk |-> d, fetched |-> 0,
           log |-> <<"notice: dry-run: would download">>]}
    ELSE {[err |-> <<"s3 get failed">>, disk |-> d, fetched |-> 0, log |-> <<>>],
          [err |-> Nil, disk |-> File(rem, TRUE), fetched |-> 1, log |-> <<>>]}

RemoveStrict(d) ==
    IF ~d.present
    THEN {[err |-> <<"remove: no such file or directory">>, disk |-> Absent]}
    ELSE {[err |-> Nil, disk |-> Absent],
          [err |-> <<"unlinkat: permission denied">>, disk |-> d]}
\* os.RemoveAll: nil when the path does not exist; otherwise the path is
\* removed, or the removal fails and leaves it.
RemoveAll(d) ==
    IF ~d.present THEN {[err |-> Nil, disk |-> Absent]}
    ELSE {[err |-> Nil, disk |-> Absent],
          [err |-> <<"unlinkat: permission denied">>, disk |-> d]}

\* os.Stat followed by os.IsNotExist
IsNotExist(d) == ~d.present

\* ioutil.ReadFile: the content, or no data and an error.
ReadFile(d) ==
    IF d.readable THEN [err |-> Nil, data |-> d.content]
    ELSE [err |-> <<"open: permission denied">>, data |-> NoData]

doGetDropsError(o) == Nil
\* syncFromJob.doGet, on the outcome o of Bucket.Get
doGet(o) == Wrap(o.err, "problem with s3 get during sync")

(***************************************************************************)
(* The job.                                                                *)
(***************************************************************************)
\* The record of the calls of one Run (history, read by the properties only):
\* how often each call was made, how many transfers Get performed, and which
\* calls returned an error.
NoCalls == [exists |-> 0, remove |-> 0, stat |-> 0, read |-> 0,
            compare |-> 0, get |-> 0, fetched |-> 0, failed |-> {}]

Called(c, name) == [c EXCEPT ![name] = @ + 1]
Failed(c, name, err) ==
    IF err = Nil THEN c ELSE [c EXCEPT !.failed = @ \cup {name}]

\* No build: the state of the build job while the sync job is followed.
NoBuild ==
    /\ DryRun = FALSE
    /\ mutex = {}
    /\ Output = <<>>
    /\ Errors = <<>>
    /\ wg = 0
    /\ coord = "none"
    /\ rpc = <<>>
    /\ out = <<>>
    /\ pending = <<>>
    /\ trace = <<>>
    /\ cmdRuns = <<>>
    /\ dones = <<>>

\* newSyncFromJob, for every bucket, local path and remote file
Init ==
    /\ NoBuild
    /\ isComplete = FALSE
    /\ withDelete \in BOOLEAN
    /\ dryRun \in BOOLEAN
    /\ remoteFile \in RemoteFiles
    /\ remote \in (IF remoteFile.Key = "" THEN {NoObject}
                   ELSE {NoObject} \cup Contents)
    /\ disk \in DiskStates
    /\ diskInit = disk
    /\ errors = <<>>
    /\ pc = "idle"
    /\ data = NoData
    /\ runs = 0
    /\ marks = 0
    /\ calls = NoCalls
    /\ pre = [disk |-> disk, errors |-> <<>>]
    /\ xhist = <<>>
    /\ log = <<>>
    /\ lastError = NotCalled

FirstStepAlwaysChecks(key) == "exists"
\* The test of the remote key: the empty key returns at once.
FirstStep(key) == IF key = "" THEN "return" ELSE "exists"

\* Run is invoked.
RunStart ==
    /\ pc = "idle"
    /\ runs < MaxRuns
    /\ runs' = runs + 1
    /\ calls' = NoCalls
    /\ pre' = [disk |-> disk, errors |-> errors]
    /\ log' = <<>>
    /\ data' = NoData
    /\ pc' = FirstStep(remoteFile.Key)
    /\ xhist' = IF pc' = "return" THEN Append(xhist, "skipped") ELSE xhist
    /\ UNCHANGED <<isComplete, withDelete, remoteFile, dryRun, errors, disk,
                   remote, marks, diskInit>>
    /\ UNCHANGED <<lastError, rpmVars>>

ShouldRemoveIgnoringDryRun(delete, dry) == delete
ShouldRemoveIgnoringDelete(delete, dry) == ~dry
\* The condition of the removal of the local path
ShouldRemove(delete, dry) == delete /\ ~dry

ExistsBranchRetrying(err, exists, delete, dry) ==
    IF err # Nil THEN "exists"
    ELSE IF ~exists
    THEN (IF delete /\ ~dry THEN "remove" ELSE "return")
    ELSE "stat"
ExistsBranchIgnoringError(err, exists, delete, dry) ==
    IF ~exists /\ ShouldRemove(delete, dry) THEN "remove"
    ELSE IF ~exists \/ err # Nil THEN "return" ELSE "stat"
\* Where Run goes after the existence check
ExistsBranch(err, exists, delete, dry) ==
    IF err # Nil THEN "return"
    ELSE IF ~exists
    THEN (IF ShouldRemove(delete, dry) THEN "remove" ELSE "return")
    ELSE "stat"

\* The existence check and the branch on its result
CheckExists ==
    /\ pc = "exists"
    /\ \E r \in BucketExists(remote) :
         /\ calls' = Failed(Called(calls, "exists"), "exists", r.err)
         /\ errors' = addError(errors,
                               Wrap(r.err, "problem checking if the file exists"))
         /\ xhist' = Append(xhist, IF r.err # Nil THEN "error"
                                   ELSE IF r.exists THEN "present" ELSE "absent")
         /\ pc' = ExistsBranch(r.err, r.exists, withDelete, dryRun)
         /\ log' = IF r.err = Nil /\ ~r.exists /\ pc' = "return"
                   THEN Append(log,
                          IF dryRun
                          THEN "notice: dry-run: would remove local file"
                          ELSE "warning: file disappeared, doing nothing")
                   ELSE log
    /\ UNCHANGED <<isComplete, withDelete, remoteFile, dryRun, disk, remote,
                   data, runs, marks, pre, diskInit>>
    /\ UNCHANGED <<lastError, rpmVars>>

\* The removal of the local path in delete-mode
RemoveLocal ==
    /\ pc = "remove"
    /\ \E o \in RemoveAll(disk) :
         /\ calls' = Failed(Called(calls, "remove"), "remove", o.err)
         /\ disk' = o.disk
         /\ errors' = addError(errors,
                               Wrap(o.err, "problem removing local file"))
         /\ log' = IF o.err # Nil THEN log
                   ELSE Append(log, "debug: removed local file")
    /\ pc' = "return"
    /\ UNCHANGED <<isComplete, withDelete, remoteFile, dryRun, remote, data,
                   runs, marks, pre, xhist, diskInit>>
    /\ UNCHANGED <<lastError, rpmVars>>

\* The test of the local path
StatLocal ==
    /\ pc = "stat"
    /\ calls' = Called(calls, "stat")
    /\ pc' = IF IsNotExist(disk) THEN "download" ELSE "read"
    /\ UNCHANGED <<isComplete, withDelete, remoteFile, dryRun, errors, disk,
                   remote, data, runs, marks, pre, xhist, diskInit, log>>
    /\ UNCHANGED <<lastError, rpmVars>>

\* The local file does not exist: download the remote file and return.
Download ==
    /\ pc = "download"
    /\ \E o \in BucketGet(dryRun, remote, disk) :
         /\ calls' = [Failed(Called(calls, "get"), "get", o.err)
                        EXCEPT !.fetched = @ + o.fetched]
         /\ disk' = o.disk
         /\ errors' = addError(errors,
               Wrap(doGet(o), "problem downloading file during sync"))
         /\ log' = log \o o.log
    /\ pc' = "return"
    /\ UNCHANGED <<isComplete, withDelete, remoteFile, dryRun, remote, data,
                   runs, marks, pre, xhist, diskInit>>
    /\ UNCHANGED <<lastError, rpmVars>>

\* The read of the local file; a failure is recorded and Run goes on.
ReadLocal ==
    /\ pc = "read"
    /\ LET o == ReadFile(disk)
       IN /\ calls' = Failed(Called(calls, "read"), "read", o.err)
          /\ data' = o.data
          /\ errors' = addError(errors,
               Wrap(o.err, "problem reading file before hashing for sync operation"))
    /\ pc' = "compare"
    /\ UNCHANGED <<isComplete, withDelete, remoteFile, dryRun, disk, remote,
                   runs, marks, pre, xhist, diskInit, log>>
    /\ UNCHANGED <<lastError, rpmVars>>

ChecksumsDifferNever(d, etag) == FALSE
\* The comparison of the local checksum with the remote one
ChecksumsDiffer(d, etag) == HexLower(md5Sum(d)) # Trim(etag, Cutset)

\* The comparison step
Compare ==
    /\ pc = "compare"
    /\ calls' = Called(calls, "compare")
    /\ IF ChecksumsDiffer(data, remoteFile.ETag)
       THEN /\ log' = Append(log, "debug: hashes aren't the same")
            /\ pc' = "fetch"
       ELSE /\ log' = log
            /\ pc' = "return"
    /\ UNCHANGED <<isComplete, withDelete, remoteFile, dryRun, errors, disk,
                   remote, data, runs, marks, pre, xhist, diskInit>>
    /\ UNCHANGED <<lastError, rpmVars>>

\* The checksums differ: fetch the remote file.
Fetch ==
    /\ pc = "fetch"
    /\ \E o \in BucketGet(dryRun, remote, disk) :
         /\ calls' = [Failed(Called(calls, "get"), "get", o.err)
                        EXCEPT !.fetched = @ + o.fetched]
         /\ disk' = o.disk
         /\ errors' = addError(errors,
               Wrap(doGet(o), "problem fetching file during sync"))
         /\ log' = log \o o.log
    /\ pc' = "return"
    /\ UNCHANGED <<isComplete, withDelete, remoteFile, dryRun, remote, data,
                   runs, marks, pre, xhist, diskInit>>
    /\ UNCHANGED <<lastError, rpmVars>>

markCompleteNot(c) == c
\* syncFromJob.markComplete
markComplete(c) == TRUE

\* The deferred markComplete, on every way out of Run
Return ==
    /\ pc = "return"
    /\ isComplete' = markComplete(isComplete)
    /\ marks' = marks + 1
    /\ pc' = "idle"
    /\ UNCHANGED <<withDelete, remoteFile, dryRun, errors, disk, remote, data,
                   runs, calls, pre, xhist, diskInit, log>>
    /\ UNCHANGED <<lastError, rpmVars>>

\* A call of Error(), at any time: it reads the errors and changes nothing.
ErrorCall ==
    /\ lastError' = [called |-> TRUE, n |-> Len(errors), value |-> Error]
    /\ UNCHANGED <<isComplete, withDelete, remoteFile, dryRun, errors, disk,
                   remote, pc, data, runs, marks, calls, pre, xhist, diskInit,
                   log>>
    /\ UNCHANGED rpmVars

Next ==
    \/ RunStart
    \/ CheckExists
    \/ RemoveLocal
    \/ StatLocal
    \/ Download
    \/ ReadLocal
    \/ Compare
    \/ Fetch
    \/ Return
    \/ ErrorCall

Spec == Init /\ [][Next]_vars

(***************************************************************************)
(* The rebuild of a repository, repobuilder/rpm.go: one build job, and one *)
(* rebuildRepo per working directory, started by a coordinator that waits  *)
(* for all of them.  A rebuildRepo at "start", "sign" or "index" is in the *)
(* external call of that stage; the step from there is the call's return.  *)
(***************************************************************************)
DirNames == <<"repo/x86_64", "repo/i386", "repo/aarch64", "repo/ppc64le">>
WorkDirs == {DirNames[k] : k \in 1..NumDirs}

NoEntry == "<no entry>"
DryRunOutput == "no output: dry run"
CommandOutput == "createrepo output"

\* errors.Wrapf with the working directory in the message
Wrapf(e, msg, dir) == IF e = Nil THEN Nil ELSE <<msg, dir>> \o e

\* What an external call can return: nil or an error.
CallResults(cause) == {Nil, <<cause>>}

\* The state of the sync job while the build is followed: a job that is
\* never run.
NoSync ==
    /\ isComplete = FALSE
    /\ withDelete = FALSE
    /\ dryRun = FALSE
    /\ remoteFile = [Key |-> "", ETag |-> <<>>]
    /\ remote = NoObject
    /\ disk = Absent
    /\ diskInit = Absent
    /\ errors = <<>>
    /\ pc = "idle"
    /\ data = NoData
    /\ runs = 0
    /\ marks = 0
    /\ calls = NoCalls
    /\ pre = [disk |-> Absent, errors |-> <<>>]
    /\ xhist = <<>>
    /\ log = <<>>
    /\ lastError = NotCalled

\* buildRepoJob, for a real build and for a dry-run
InitRPM ==
    /\ NoSync
    /\ DryRun \in BOOLEAN
    /\ mutex = {}
    /\ Output = [d \in WorkDirs |-> NoEntry]
    /\ Errors = <<>>
    /\ wg = 0
    /\ coord = "launching"
    /\ rpc = [d \in WorkDirs |-> "idle"]
    /\ out = [d \in WorkDirs |-> ""]
    /\ pending = [d \in WorkDirs |-> Nil]
    /\ trace = [d \in WorkDirs |-> <<>>]
    /\ cmdRuns = [d \in WorkDirs |-> 0]
    /\ dones = [d \in WorkDirs |-> 0]

\* The coordinator adds one to the wait-group and starts rebuildRepo.
Launch(d) ==
    /\ coord = "launching"
    /\ rpc[d] = "idle"
    /\ wg' = wg + 1
    /\ rpc' = [rpc EXCEPT ![d] = "start"]
    /\ UNCHANGED <<DryRun, mutex, Output, Errors, coord, out, pending, trace,
                   cmdRuns, dones>>
    /\ UNCHANGED syncVars

\* The coordinator has started every rebuildRepo and calls wg.Wait.
Wait ==
    /\ coord = "launching"
    /\ \A d \in WorkDirs : rpc[d] # "idle"
    /\ coord' = "waiting"
    /\ UNCHANGED <<DryRun, mutex, Output, Errors, wg, rpc, out, pending, trace,
                   cmdRuns, dones>>
    /\ UNCHANGED syncVars

\* wg.Wait returns when the counter is zero.
WaitReturns(n) == n = 0

\* The coordinator is released.
Release ==
    /\ coord = "waiting"
    /\ WaitReturns(wg)
    /\ coord' = "released"
    /\ UNCHANGED <<DryRun, mutex, Output, Errors, wg, rpc, out, pending, trace,
                   cmdRuns, dones>>
    /\ UNCHANGED syncVars

InvokesAlways(dry) == TRUE
\* createrepo is run unless the job is a dry-run.
Invokes(dry) == ~dry

AfterCreaterepoIgnoringError(e) == "lock"
\* Where rebuildRepo goes after createrepo
AfterCreaterepo(e) == IF e # Nil THEN "adderror" ELSE "lock"

\* The metadata stage: the placeholder in a dry-run, or createrepo and its
\* combined output.
Rebuild(d) ==
    /\ rpc[d] = "start"
    /\ IF Invokes(DryRun)
       THEN \E e \in CallResults("exit status 1") :
              /\ cmdRuns' = [cmdRuns EXCEPT ![d] = @ + 1]
              /\ out' = [out EXCEPT ![d] = CommandOutput]
              /\ pending' = [pending EXCEPT
                               ![d] = Wrapf(e, "running createrepo for", d)]
              /\ trace' = [trace EXCEPT ![d] = Append(@,
                              IF e # Nil THEN "createrepo: failed"
                              ELSE "createrepo: ok")]
              /\ rpc' = [rpc EXCEPT ![d] = AfterCreaterepo(e)]
       ELSE /\ out' = [out EXCEPT ![d] = DryRunOutput]
            /\ trace' = [trace EXCEPT ![d] = Append(@, "createrepo: dry-run")]
            /\ rpc' = [rpc EXCEPT ![d] = "lock"]
            /\ UNCHANGED <<cmdRuns, pending>>
    /\ UNCHANGED <<DryRun, mutex, Output, Errors, wg, coord, dones>>
    /\ UNCHANGED syncVars

LockWithoutWaiting(holders) == TRUE
\* sync.Mutex.Lock returns when nobody holds the mutex.
LockReturns(holders) == holders = {}

\* j.mutex.Lock()
Lock(d) ==
    /\ rpc[d] = "lock"
    /\ LockReturns(mutex)
    /\ mutex' = mutex \cup {d}
    /\ rpc' = [rpc EXCEPT ![d] = "store"]
    /\ UNCHANGED <<DryRun, Output, Errors, wg, coord, out, pending, trace,
                   cmdRuns, dones>>
    /\ UNCHANGED syncVars

OutputKeyOfJob(d) == DirNames[1]
\* The key of the output map: the working directory.
OutputKey(d) == d

\* j.Output[workingDir] = output
Store(d) ==
    /\ rpc[d] = "store"
    /\ Output' = [Output EXCEPT ![OutputKey(d)] = out[d]]
    /\ trace' = [trace EXCEPT ![d] = Append(@, "store")]
    /\ rpc' = [rpc EXCEPT ![d] = "unlock"]
    /\ UNCHANGED <<DryRun, mutex, Errors, wg, coord, out, pending, cmdRuns,
                   dones>>
    /\ UNCHANGED syncVars

\* sync.Mutex.Unlock
Unlocked(holders, d) == holders \ {d}

\* j.mutex.Unlock()
Unlock(d) ==
    /\ rpc[d] = "unlock"
    /\ mutex' = Unlocked(mutex, d)
    /\ rpc' = [rpc EXCEPT ![d] = "sign"]
    /\ UNCHANGED <<DryRun, Output, Errors, wg, coord, out, pending, trace,
                   cmdRuns, dones>>
    /\ UNCHANGED syncVars

AfterSignIgnoringError(e) == "index"
\* Where rebuildRepo goes after signFile
AfterSign(e) == IF e # Nil THEN "adderror" ELSE "index"

\* The signing of repodata/repomd.xml
Sign(d) ==
    /\ rpc[d] = "sign"
    /\ \E e \in CallResults("gpg failed") :
         /\ pending' = [pending EXCEPT
                          ![d] = Wrapf(e, "signing release metadata for", d)]
         /\ trace' = [trace EXCEPT ![d] = Append(@,
                         IF e # Nil THEN "sign: failed" ELSE "sign: ok")]
         /\ rpc' = [rpc EXCEPT ![d] = AfterSign(e)]
    /\ UNCHANGED <<DryRun, mutex, Output, Errors, wg, coord, out, cmdRuns,
                   dones>>
    /\ UNCHANGED syncVars

\* The building of the index pages
Index(d) ==
    /\ rpc[d] = "index"
    /\ \E e \in CallResults("index failed") :
         /\ pending' = [pending EXCEPT
                          ![d] = Wrapf(e, "building index.html pages for", d)]
         /\ trace' = [trace EXCEPT ![d] = Append(@,
                         IF e # Nil THEN "index: failed" ELSE "index: ok")]
         /\ rpc' = [rpc EXCEPT ![d] = IF e # Nil THEN "adderror" ELSE "done"]
    /\ UNCHANGED <<DryRun, mutex, Output, Errors, wg, coord, out, cmdRuns,
                   dones>>
    /\ UNCHANGED syncVars

\* Job.addError: the error is appended under the job's mutex; rebuildRepo
\* returns after it.
AddError(d) ==
    /\ rpc[d] = "adderror"
    /\ LockReturns(mutex)
    /\ Errors' = addError(Errors, pending[d])
    /\ rpc' = [rpc EXCEPT ![d] = "done"]
    /\ UNCHANGED <<DryRun, mutex, Output, wg, coord, out, pending, trace,
                   cmdRuns, dones>>
    /\ UNCHANGED syncVars

DoneOnSuccessOnly(e) == IF e # Nil THEN 0 ELSE 1
\* defer wg.Done(): once, however rebuildRepo returns
DoneCalls(e) == 1

\* rebuildRepo returns, and its deferred wg.Done() runs.
Done(d) ==
    /\ rpc[d] = "done"
    /\ wg' = wg - DoneCalls(pending[d])
    /\ dones' = [dones EXCEPT ![d] = @ + DoneCalls(pending[d])]
    /\ rpc' = [rpc EXCEPT ![d] = "finished"]
    /\ UNCHANGED <<DryRun, mutex, Output, Errors, coord, out, pending, trace,
                   cmdRuns>>
    /\ UNCHANGED syncVars

\* The steps of one rebuildRepo
Pipeline(d) ==
    \/ Rebuild(d)
    \/ Lock(d)
    \/ Store(d)
    \/ Unlock(d)
    \/ Sign(d)
    \/ Index(d)
    \/ AddError(d)
    \/ Done(d)

\* The steps of the coordinator
Coordinator ==
    \/ \E d \in WorkDirs : Launch(d)
    \/ Wait
    \/ Release

NextRPM ==
    \/ Coordinator
    \/ \E d \in WorkDirs : Pipeline(d)

SpecRPM == InitRPM /\ [][NextRPM]_vars

\* Every external call returns and every goroutine is scheduled.
FairSpecRPM ==
    /\ SpecRPM
    /\ WF_vars(Coordinator)
    /\ \A d \in WorkDirs : WF_vars(Pipeline(d))

(***************************************************************************)
(* What the properties speak of.                                           *)
(***************************************************************************)
\* Run has returned at least once and is not running.
Returned == pc = "idle" /\ runs > 0
\* The existence check of the current (or last) Run has been made.
Checked == Len(xhist) = runs /\ runs > 0
\* What it reported: "skipped", "error", "absent" or "present".
Reported == xhist[runs]
\* The errors the current (or last) Run has recorded.
Recorded == SubSeq(errors, Len(pre.errors) + 1, Len(errors))
KeepsErrors == SubSeq(errors, 1, Len(pre.errors)) = pre.errors
\* The checksum of the local content as Run found it, in hexadecimal.
LocalChecksum == HexWith(LowerDigits, md5Sum(pre.disk.content))
\* The stored checksum without the characters around it.
Surrounded(etag, sum) ==
    \E p, q \in SeqsUpTo(Cutset, MaxPad) : etag = p \o sum \o q
RemoteChecksumIs(sum) == Surrounded(remoteFile.ETag, sum)
\* Letter case: the lower-case form of a checksum string.
LowerOf(c) ==
    IF \E i \in 1..Len(UpperDigits) : UpperDigits[i] = c
    THEN LowerDigits[CHOOSE i \in 1..Len(UpperDigits) : UpperDigits[i] = c]
    ELSE c
ToLower(s) == [i \in 1..Len(s) |-> LowerOf(s[i])]
EqualFold(s, t) == ToLower(s) = ToLower(t)
\* The stored checksum is, between quotes, a string that differs from sum in
\* letter case at most.
RemoteChecksumFolds(sum) ==
    \E p, q \in SeqsUpTo({Quote}, MaxPad) :
        /\ Len(remoteFile.ETag) = Len(p) + Len(sum) + Len(q)
        /\ SubSeq(remoteFile.ETag, 1, Len(p)) = p
        /\ SubSeq(remoteFile.ETag, Len(p) + Len(sum) + 1,
                  Len(remoteFile.ETag)) = q
        /\ EqualFold(SubSeq(remoteFile.ETag, Len(p) + 1, Len(p) + Len(sum)),
                     sum)
\* Get returned nil, or an error, in the current (or last) Run.
GetCalled == calls.get = 1
GetFailed == "get" \in calls.failed
\* One error was recorded, and msg is its outermost message.
RecordedOne(msg) == Len(Recorded) = 1 /\ Head(Recorded[1]) = msg /\ KeepsErrors

\* C1: Completed() is false before Run is invoked and true once Run has
\* returned, on every way out of Run, and markComplete executes exactly once
\* per invocation of Run: never before the Run returns, once when it does.
C1_CompletedOncePerRun ==
    /\ (runs = 0 => ~isComplete)
    /\ (runs = 1 /\ pc # "idle" => ~isComplete)
    /\ (Returned => isComplete)
    /\ marks = (IF pc = "idle" THEN runs ELSE runs - 1)

\* A Run that recorded an error has returned, and so has one that did not.
C1_Witness ==
    /\ Returned /\ runs = 2 /\ marks = 2 /\ isComplete
    /\ xhist = <<"error", "present">>
    /\ Len(errors) = 1

\* C2: Run removes the local path only if the key is not empty, the existence
\* check succeeded and reported the object absent, delete-mode is on and the
\* bucket is not in dry-run.  With delete-mode on and dry-run set, Run removes
\* nothing, transfers nothing and leaves the local path as it is; and when the
\* object is absent it does not call Get either.
C2_RemoveOnlyWhenAllHold ==
    /\ (calls.remove > 0 \/ pc = "remove" =>
          /\ remoteFile.Key # ""
          /\ Checked /\ Reported = "absent"
          /\ withDelete
          /\ ~dryRun)
    /\ (withDelete /\ dryRun =>
          /\ calls.remove = 0
          /\ calls.fetched = 0
          /\ disk = diskInit
          /\ (Checked /\ Reported = "absent" => calls.get = 0))

\* Delete-mode and dry-run, the object absent and a file at the local path:
\* Run has returned and the file is still there.
C2_Witness ==
    /\ Returned /\ withDelete /\ dryRun /\ Reported = "absent"
    /\ disk.present /\ calls.remove = 0

\* C3: when the object exists, the local file exists and is readable and its
\* checksum equals the remote checksum, Run calls Get zero times, leaves the
\* local file as it is and records no error: Error() is nil afterwards
\* (unless an earlier Run recorded an error).
C3_MatchMeansNoFetch ==
    Returned /\ Reported = "present" /\ pre.disk.present /\ pre.disk.readable
             /\ RemoteChecksumIs(LocalChecksum) =>
        /\ calls.get = 0
        /\ calls.compare = 1
        /\ disk = pre.disk
        /\ errors = pre.errors
        /\ (pre.errors = <<>> => Error = Nil)

\* The quoted checksum of the scenario: the local file is "hello".
C3_Witness ==
    /\ Returned /\ Reported = "present" /\ runs = 1
    /\ pre.disk = File("hello", TRUE)
    /\ remoteFile.ETag = <<Quote>> \o LocalChecksum \o <<Quote>>
    /\ calls.compare = 1 /\ calls.get = 0 /\ Error = Nil

\* C4 as stated: when the object exists, the local file exists and the
\* checksums differ, Run calls Get exactly once; when the call succeeds the
\* local file has the remote content and Error() is nil; when it fails the
\* failure is recorded.
C4_AsStated ==
    Returned /\ Reported = "present" /\ pre.disk.present /\ pre.errors = <<>>
             /\ ~RemoteChecksumIs(LocalChecksum) =>
        /\ GetCalled
        /\ (~GetFailed => disk = File(remote, TRUE) /\ Error = Nil)
        /\ (GetFailed => RecordedOne("problem fetching file during sync"))

\* C4, amended: when the object exists, the local file exists and is readable
\* and the checksums differ, Run calls Get exactly once.  When the call
\* succeeds, no error is recorded (Error() is nil) and the local file has the
\* remote content, or, in dry-run, is as it was.  When the call fails, the
\* failure is recorded on the job's error list.
C4_DifferMeansOneFetch ==
    Returned /\ Reported = "present" /\ pre.disk.present /\ pre.disk.readable
             /\ ~RemoteChecksumIs(LocalChecksum) =>
        /\ GetCalled
        /\ calls.compare = 1
        /\ (~GetFailed =>
              /\ disk = (IF dryRun THEN pre.disk ELSE File(remote, TRUE))
              /\ errors = pre.errors
              /\ (pre.errors = <<>> => Error = Nil))
        /\ (GetFailed => RecordedOne("problem fetching file during sync"))

\* The local "hello" has been overwritten with the remote "world".
C4_Witness ==
    /\ Returned /\ Reported = "present" /\ runs = 1 /\ ~dryRun
    /\ pre.disk = File("hello", TRUE)
    /\ remoteFile.ETag = <<Quote>> \o HexWith(LowerDigits, md5Sum("world"))
                                  \o <<Quote>>
    /\ GetCalled /\ ~GetFailed
    /\ disk = File("world", TRUE) /\ Error = Nil

\* C5 as stated: when the object exists and the local path is absent, Run
\* calls Get exactly once and compares no checksums; after a successful call
\* the local file exists with the remote content and Error() is nil; a failed
\* call is recorded as an error and the job still completes.
C5_AsStated ==
    Returned /\ Reported = "present" /\ ~pre.disk.present /\ pre.errors = <<>> =>
        /\ GetCalled
        /\ calls.compare = 0
        /\ (~GetFailed => disk = File(remote, TRUE) /\ Error = Nil)
        /\ (GetFailed => RecordedOne("problem downloading file during sync"))
        /\ isComplete

\* C5, amended: when the object exists and the local path is absent, Run
\* calls Get exactly once and neither reads the path nor compares checksums.
\* After a successful call no error is recorded (Error() is nil) and the
\* local file exists with the remote content, except in dry-run, where the
\* path stays absent.  A failed call is recorded as an error, and the job
\* completes in every case.
C5_AbsentMeansOneFetch ==
    Returned /\ Reported = "present" /\ ~pre.disk.present =>
        /\ GetCalled
        /\ calls.compare = 0 /\ calls.read = 0
        /\ (~GetFailed =>
              /\ disk = (IF dryRun THEN Absent ELSE File(remote, TRUE))
              /\ errors = pre.errors
              /\ (pre.errors = <<>> => Error = Nil))
        /\ (GetFailed => RecordedOne("problem downloading file during sync"))
        /\ isComplete

\* The absent path has been filled with the remote content.
C5_Witness ==
    /\ Returned /\ Reported = "present" /\ runs = 1 /\ ~dryRun
    /\ pre.disk = Absent /\ GetCalled /\ ~GetFailed
    /\ disk = File(remote, TRUE) /\ Error = Nil /\ isComplete

\* C6: when the existence check reports the object absent and delete-mode is
\* off, Run neither removes nor fetches, leaves the local file as it is and
\* records no error, with dry-run and without; and after any number of such
\* Runs the local file is as it was at the start.
C6_AbsentWithoutDeleteKeepsLocal ==
    /\ (Checked /\ Reported = "absent" /\ ~withDelete =>
          /\ calls.remove = 0 /\ calls.get = 0 /\ calls.fetched = 0
          /\ pc \in {"return", "idle"}
          /\ disk = pre.disk
          /\ errors = pre.errors)
    /\ (~withDelete /\ (\A i \in 1..Len(xhist) : xhist[i] = "absent") =>
          disk = diskInit /\ errors = <<>>)

\* Two Runs without delete-mode have found the object absent; the local file
\* is still there.
C6_Witness ==
    /\ Returned /\ runs = 2 /\ xhist = <<"absent", "absent">>
    /\ ~withDelete /\ ~dryRun /\ disk.present /\ disk = diskInit
    /\ Error = Nil

\* C7: when the existence check reports the object absent, delete-mode is on
\* and dry-run is off, Run calls the removal once; after it the local path
\* is absent, or the removal failed and the failure is recorded; and a Run on
\* an already absent path records no error.
C7_AbsentWithDeleteRemoves ==
    Returned /\ Reported = "absent" /\ withDelete /\ ~dryRun =>
        /\ calls.remove = 1 /\ calls.get = 0
        /\ IF "remove" \in calls.failed
           THEN RecordedOne("problem removing local file") /\ disk = pre.disk
           ELSE disk = Absent /\ errors = pre.errors
        /\ (~pre.disk.present => errors = pre.errors /\ disk = Absent)

\* The first Run removed the file, the second found the path absent, and
\* neither recorded an error.
C7_Witness ==
    /\ Returned /\ runs = 2 /\ xhist = <<"absent", "absent">>
    /\ withDelete /\ ~dryRun /\ diskInit.present
    /\ pre.disk = Absent /\ disk = Absent /\ calls.remove = 1
    /\ Error = Nil

\* C8: with an empty remote key Run makes no existence check, no fetch and no
\* removal (and no read), leaves the local path as it is, records no error,
\* so that Error() is nil, and marks the job completed.
C8_EmptyKeyIsNoOp ==
    remoteFile.Key = "" =>
        /\ calls = NoCalls
        /\ pc \in {"idle", "return"}
        /\ disk = diskInit
        /\ errors = <<>> /\ Error = Nil
        /\ (Returned => isComplete)

\* A job with the empty key has run, with a file at its local path.
C8_Witness ==
    /\ remoteFile.Key = "" /\ Returned /\ isComplete
    /\ withDelete /\ ~dryRun /\ disk.present /\ xhist = <<"skipped">>

\* C9: when the existence check returns an error, Run records exactly one
\* error and stops: it removes nothing, fetches nothing, reads nothing and
\* leaves the local path as it is, whatever the delete and dry-run flags.
C9_ExistsErrorStops ==
    Checked /\ Reported = "error" =>
        /\ RecordedOne("problem checking if the file exists")
        /\ pc \in {"return", "idle"}
        /\ calls.remove = 0 /\ calls.get = 0 /\ calls.read = 0
        /\ calls.stat = 0 /\ calls.compare = 0
        /\ disk = pre.disk

\* The check failed in delete-mode, not in dry-run, with a local file.
C9_Witness ==
    /\ Returned /\ Reported = "error" /\ withDelete /\ ~dryRun
    /\ disk.present /\ Len(errors) = 1 /\ Error # Nil

\* C10 as stated: the comparison ignores letter case and surrounding quotes;
\* whenever the stored checksum equals the local checksum up to letter case
\* and surrounding quote characters, Run calls Get zero times.
C10_AsStated ==
    Returned /\ Reported = "present" /\ pre.disk.present /\ pre.disk.readable
             /\ RemoteChecksumFolds(LocalChecksum) =>
        calls.compare = 1 /\ calls.get = 0

\* C10, amended: the comparison ignores surrounding quote (and space)
\* characters and is sensitive to letter case.  Whenever the stored checksum
\* is the lower-case hexadecimal local checksum between quote or space
\* characters, Run calls Get zero times; whenever it differs from it in
\* letter case, Run treats the checksums as different and calls Get once.
C10_QuotesIgnoredCaseKept ==
    Returned /\ Reported = "present" /\ pre.disk.present /\ pre.disk.readable =>
        /\ calls.compare = 1
        /\ (RemoteChecksumIs(LocalChecksum) => calls.get = 0)
        /\ (RemoteChecksumFolds(LocalChecksum)
              /\ ~RemoteChecksumIs(LocalChecksum) => calls.get = 1)

\* The stored checksum of "hello", quoted and in upper case, against the
\* local "hello": Run has fetched.
C10_Witness ==
    /\ Returned /\ Reported = "present" /\ runs = 1
    /\ pre.disk = File("hello", TRUE)
    /\ remoteFile.ETag = <<Quote>> \o HexWith(UpperDigits, md5Sum("hello"))
                                  \o <<Quote>>
    /\ calls.compare = 1 /\ calls.get = 1

\* C11: when the local path exists and reading it for the checksum fails, the
\* read failure is fatal for the job: Run records the read error and makes no
\* fetch attempt.
C11_ReadFailureSkipsFetch ==
    Returned /\ "read" \in calls.failed =>
        /\ calls.get = 0
        /\ RecordedOne("problem reading file before hashing for sync operation")

\* The messages of a combined error, cut at the separator.
RECURSIVE Split(_, _)
Split(msg, sep) ==
    IF \A i \in 1..Len(msg) : msg[i] # sep THEN <<msg>>
    ELSE LET i == CHOOSE k \in 1..Len(msg) :
                      msg[k] = sep /\ \A l \in 1..(k - 1) : msg[l] # sep
         IN <<SubSeq(msg, 1, i - 1)>> \o Split(SubSeq(msg, i + 1, Len(msg)), sep)
\* The messages of the failures of the current (or last) Run, in the order
\* in which Run can meet them.
FailureMessages ==
    (IF "exists" \in calls.failed
     THEN <<"problem checking if the file exists">> ELSE <<>>)
    \o (IF "remove" \in calls.failed
        THEN <<"problem removing local file">> ELSE <<>>)
    \o (IF "read" \in calls.failed
        THEN <<"problem reading file before hashing for sync operation">>
        ELSE <<>>)
    \o (IF "get" \in calls.failed
        THEN <<IF calls.compare = 0
               THEN "problem downloading file during sync"
               ELSE "problem fetching file during sync">>
        ELSE <<>>)
C12_ErrorState ==
    /\ (Error = Nil <=> Len(errors) = 0)
    /\ (Len(errors) > 0 => Split(Error, "\n") = errors)
    /\ (\A i \in 1..Len(errors) : errors[i] # Nil)
    /\ KeepsErrors
    /\ Len(Recorded) = Len(FailureMessages)
    /\ (\A i \in 1..Len(Recorded) : Head(Recorded[i]) = FailureMessages[i])
    /\ (lastError.called =>
          /\ lastError.n <= Len(errors)
          /\ (lastError.value = Nil <=> lastError.n = 0)
          /\ (lastError.n > 0 =>
                Split(lastError.value, "\n") = SubSeq(errors, 1, lastError.n)))
    /\ (runs = 0 /\ lastError.called => lastError.value = Nil)

\* C12: Error() returns nil exactly when no error has been recorded, also
\* when it is called before Run has completed; otherwise its message is the
\* recorded errors joined by newlines in the order in which they occurred.
\* A call that returned no error records nothing (addError of nil), and a
\* call of Error() leaves the job as it is.
C12_ErrorJoinsInOrder ==
    /\ [](C12_ErrorState)
    /\ [][lastError' # lastError =>
             UNCHANGED <<isComplete, withDelete, remoteFile, dryRun, errors,
                         disk, remote, pc, data, runs, marks, calls, pre, xhist,
                         diskInit, log>>]_vars

\* Error() was nil before the Run and now joins the read error and the fetch
\* error of that Run.
C12_Witness ==
    /\ Returned /\ runs = 1 /\ Len(errors) = 2
    /\ calls.failed = {"read", "get"}
    /\ lastError.called /\ lastError.n = 2
    /\ Split(lastError.value, "\n") = errors

\* C18: in dry-run the log reports only what a real run would do: when the
\* object does not exist, the 'would remove local file' line is written
\* exactly when delete-mode is on.
C18_DryRunLogsOnlyRealActions ==
    Returned /\ dryRun /\ Reported = "absent" =>
        (("notice: dry-run: would remove local file" \in
              {log[i] : i \in 1..Len(log)}) <=> withDelete)

\* C20: one Run with a key that is not empty makes exactly one existence
\* check, in dry-run as without, and at most one fetch call; no call that
\* failed is made again in that Run.
C20_NoRetries ==
    /\ calls.exists <= 1 /\ calls.get <= 1 /\ calls.read <= 1
    /\ calls.remove <= 1 /\ calls.stat <= 1 /\ calls.compare <= 1
    /\ (remoteFile.Key # "" /\ (Returned \/ pc = "return") => calls.exists = 1)
    /\ (\A c \in calls.failed : calls[c] = 1)

\* A dry-run in which the existence check failed: it was made once.
C20_Witness ==
    /\ Returned /\ dryRun /\ remoteFile.Key # ""
    /\ calls.failed = {"exists"} /\ calls.exists = 1 /\ calls.get = 0

(***************************************************************************)
(* What the properties of the rebuild speak of.                            *)
(***************************************************************************)
\* rebuildRepo for d has passed the stage with this result.
HasEvent(d, e) == \E k \in 1..Len(trace[d]) : trace[d][k] = e
\* rebuildRepo for d has returned.
Finished(d) == rpc[d] = "finished"
\* addError has returned, if rebuildRepo for d called it.
PastAddError(d) == rpc[d] \in {"done", "finished"}
\* The recorded errors that name d.
ErrorsOf(d) == SelectSeq(Errors, LAMBDA e : e[2] = d)
OneErrorOf(d, msg) == Len(ErrorsOf(d)) = 1 /\ ErrorsOf(d)[1][1] = msg
IsPrefix(t, u) == Len(t) <= Len(u) /\ t = SubSeq(u, 1, Len(t))
FullSuccess == <<"createrepo: ok", "store", "sign: ok", "index: ok">>
\* The stages in their order, up to the first failure.
StageOrders ==
    {<<"createrepo: failed">>}
    \cup {<<m, "store", "sign: failed">> :
            m \in {"createrepo: ok", "createrepo: dry-run"}}
    \cup {<<m, "store", "sign: ok", x>> :
            m \in {"createrepo: ok", "createrepo: dry-run"},
            x \in {"index: ok", "index: failed"}}

\* C13: in a real rebuild of a working directory, when createrepo fails, the
\* sign and index stages are not executed for it, exactly one error, naming
\* that directory, is recorded, and the output map gets no entry for it.
C13_IndexerFailureSkipsTheRest ==
    \A d \in WorkDirs :
        HasEvent(d, "createrepo: failed") =>
            /\ ~DryRun
            /\ trace[d] = <<"createrepo: failed">>
            /\ rpc[d] \in {"adderror", "done", "finished"}
            /\ Output[d] = NoEntry
            /\ (PastAddError(d) => OneErrorOf(d, "running createrepo for"))
            /\ (~PastAddError(d) => ErrorsOf(d) = <<>>)

\* createrepo failed for the first directory and the build is over.
C13_Witness ==
    /\ coord = "released"
    /\ trace[DirNames[1]] = <<"createrepo: failed">>
    /\ trace[DirNames[2]] = FullSuccess
    /\ Output[DirNames[1]] = NoEntry
    /\ Len(Errors) = 1

\* C14: the stages of one rebuild run in the order metadata, store, sign,
\* index: sign starts only after createrepo succeeded (or was skipped in a
\* dry-run) and its output is in the map, the index is built only after sign
\* succeeded, and a failure of sign is recorded and ends the rebuild.
C14_StagesInOrder ==
    \A d \in WorkDirs :
        /\ \E o \in StageOrders : IsPrefix(trace[d], o)
        /\ (rpc[d] = "sign" =>
              /\ Len(trace[d]) = 2
              /\ Output[d] = out[d] /\ Output[d] # NoEntry
              /\ d \notin mutex)
        /\ (rpc[d] = "index" => Len(trace[d]) = 3)
        /\ (HasEvent(d, "sign: failed") =>
              /\ rpc[d] \in {"adderror", "done", "finished"}
              /\ (PastAddError(d) =>
                    OneErrorOf(d, "signing release metadata for")))

\* The signing failed for the first directory, and its rebuild has returned
\* without an index.
C14_Witness ==
    /\ Finished(DirNames[1])
    /\ trace[DirNames[1]] = <<"createrepo: ok", "store", "sign: failed">>
    /\ trace[DirNames[2]] = FullSuccess
    /\ OneErrorOf(DirNames[1], "signing release metadata for")

\* C15: in a dry-run a rebuild never runs createrepo, puts the placeholder
\* in the output map under its working directory, records no createrepo
\* error, and goes on to the sign stage as after a success.
C15_DryRunSkipsIndexer ==
    DryRun =>
        \A d \in WorkDirs :
            /\ cmdRuns[d] = 0
            /\ ~HasEvent(d, "createrepo: failed")
            /\ (\A k \in 1..Len(Errors) :
                    Errors[k][1] # "running createrepo for")
            /\ (HasEvent(d, "store") => Output[d] = DryRunOutput)
            /\ (rpc[d] \notin {"idle", "start"} =>
                    trace[d][1] = "createrepo: dry-run")
            /\ (Finished(d) =>
                    /\ Len(trace[d]) >= 3
                    /\ trace[d][2] = "store"
                    /\ trace[d][3] \in {"sign: ok", "sign: failed"})

\* A dry-run is over; every directory has the placeholder.
C15_Witness ==
    /\ DryRun /\ coord = "released"
    /\ \A d \in WorkDirs :
          /\ Output[d] = DryRunOutput
          /\ trace[d] = <<"createrepo: dry-run", "store", "sign: ok",
                           "index: ok">>

\* C16: when, of the rebuilds of the working directories, run concurrently,
\* exactly one fails in createrepo and every other stage succeeds, then after
\* all have returned the output map has an entry for every other directory
\* and none for the failed one, and exactly one error is recorded, which
\* names the failed directory.
C16_OneFailureIsIsolated ==
    \A f \in WorkDirs :
        /\ \A d \in WorkDirs : Finished(d)
        /\ trace[f] = <<"createrepo: failed">>
        /\ \A d \in WorkDirs \ {f} : trace[d] = FullSuccess
        => /\ Output[f] = NoEntry
           /\ \A d \in WorkDirs \ {f} : Output[d] = CommandOutput
           /\ Len(Errors) = 1
           /\ Errors[1][1] = "running createrepo for"
           /\ Errors[1][2] = f

\* The second directory failed in createrepo; the others are rebuilt.
C16_Witness ==
    /\ coord = "released"
    /\ trace[DirNames[2]] = <<"createrepo: failed">>
    /\ \A d \in WorkDirs \ {DirNames[2]} :
          trace[d] = FullSuccess /\ Output[d] = CommandOutput
    /\ Len(Errors) = 1 /\ Errors[1][2] = DirNames[2]

\* The wait-group counts the rebuilds that were started and have not
\* returned, and the coordinator is released only when all have returned.
C17_WaitGroupState ==
    /\ \A d \in WorkDirs : dones[d] = (IF Finished(d) THEN 1 ELSE 0)
    /\ wg = Cardinality({d \in WorkDirs : rpc[d] \notin {"idle", "finished"}})
    /\ (coord = "released" => \A d \in WorkDirs : Finished(d))

\* C17: every rebuild that was started calls wg.Done exactly once, however
\* it returns, so that the coordinator that waits for them is released in
\* the end, and never before all of them have returned.
C17_EveryPipelineSignalsOnce ==
    /\ [](C17_WaitGroupState)
    /\ <>(coord = "released")

\* The coordinator is released after a createrepo failure, a sign failure
\* and an index failure.
C17_Witness ==
    /\ coord = "released" /\ wg = 0
    /\ trace[DirNames[1]] = <<"createrepo: failed">>
    /\ trace[DirNames[2]] = <<"createrepo: ok", "store", "sign: failed">>
    /\ trace[DirNames[3]] = <<"createrepo: ok", "store", "sign: ok",
                               "index: failed">>
    /\ \A d \in WorkDirs : dones[d] = 1

\* At most one rebuild holds the mutex, and the one that holds it is between
\* Lock and Unlock, not in an external call.
C19_MutexState ==
    /\ Cardinality(mutex) <= 1
    /\ \A d \in mutex : rpc[d] \in {"store", "unlock"}
    /\ \A d \in WorkDirs : rpc[d] \in {"store", "unlock"} => d \in mutex

\* C19: every write to the output map is made by a rebuild that holds the
\* job's mutex, at most one rebuild holds the mutex at any time, and the
\* mutex is never held during an external call (createrepo, sign, index).
C19_LockDiscipline ==
    /\ [](C19_MutexState)
    /\ [][Output' # Output =>
             \E d \in WorkDirs :
                 /\ mutex = {d}
                 /\ rpc[d] = "store"
                 /\ \A x \in WorkDirs \ {d} : Output'[x] = Output[x]]_vars

\* One rebuild is in the store while another waits for the mutex and a
\* third is in its external call.
C19_Witness ==
    /\ mutex = {DirNames[1]} /\ rpc[DirNames[1]] = "unlock"
    /\ Output[DirNames[1]] = CommandOutput
    /\ rpc[DirNames[2]] = "lock"
    /\ rpc[DirNames[3]] = "sign"

====
